---- MODULE Spec2Model ----
(***************************************************************************)
(* AlphaFxTrader: the trading engine (TradingAlgorithms), the Risk Gate    *)
(* (RiskManager), the backtest simulator (runBacktest) and the live        *)
(* auto-trading loop (AlphaFxTraderServer) as state machines.              *)
(*                                                                         *)
(* Numbers.  Prices, capital and notional are JavaScript doubles in the    *)
(* source; here they are integers (a price is a number of ticks), and a    *)
(* quotient is kept as a pair <<numerator, denominator>> and compared by   *)
(* cross-multiplication, so every comparison the code makes is decided     *)
(* exactly.  Rounding errors of binary floating point are outside the      *)
(* model.                                                                  *)
(***************************************************************************)
EXTENDS Integers, Sequences, FiniteSets, TLC

VARIABLES
  rm,        \* the RiskManager object: [maxVolume, currentVolume]
  auth,      \* the last canExecuteTrade call: its trade, the volume it saw, its result
  scen,      \* bookkeeping of the authorize-then-record rounds run on rm
  db,        \* price_data rows of one symbol, oldest first: mid prices, timestamp = index
  hist,      \* algorithmRoutes' tradingAlgorithms.priceHistory of that symbol
  bt,        \* the runBacktest call in progress, or the last one
  resp,      \* the response of the last request to algorithmRoutes
  srv,       \* the AlphaFxTraderServer object's trading state
  store,     \* the server's tradingAlgorithms.priceHistory, per symbol
  tick,      \* the runTradingAlgorithms call in progress: its position in the loop
             \* and the tradeData of its last pass
  ta,        \* a TradingAlgorithms object of its own, with its callers' last call
  ic         \* another TradingAlgorithms object, followed with its indicators map

gateVars == <<rm, auth, scen>>

engineVars == <<db, hist, bt, resp>>

serverVars == <<srv, store, tick>>

storeVars == <<ta, ic>>

vars == <<rm, auth, scen, db, hist, bt, resp, srv, store, tick, ta, ic>>

(***************************************************************************)
(* Bounds of the Risk Gate model.                                          *)
(***************************************************************************)
MaxGateVolume == 6      \* maxVolume is drawn from 1..MaxGateVolume
MaxGateQty    == 2      \* trade quantities 0..MaxGateQty
MaxGatePrice  == 3      \* trade prices 1..MaxGatePrice
GateSlack     == 3      \* currentVolume is followed up to maxVolume + GateSlack

GateTrades == [quantity : 0..MaxGateQty, price : 1..MaxGatePrice]

Min(a, b) == IF a <= b THEN a ELSE b

Max(a, b) == IF a >= b THEN a ELSE b

(***************************************************************************)
(* RiskManager (docs/TRADING_LOGIC.md).                                    *)
(***************************************************************************)
RiskManager(maxVolume) == [maxVolume |-> maxVolume, currentVolume |-> 0]

tradeValue(trade) == trade.quantity * trade.price

\* A gate that also turns away the trade that exactly fills the volume.
ExceedsVolumeStrict(r, trade) == r.currentVolume + tradeValue(trade) >= r.maxVolume

ExceedsVolume(r, trade) == r.currentVolume + tradeValue(trade) > r.maxVolume

canExecuteTrade(r, trade) ==
  IF ExceedsVolume(r, trade)
    THEN [allowed |-> FALSE, reason |-> "Maximum trading volume exceeded"]
    ELSE [allowed |-> TRUE, reason |-> ""]

\* A record that counts the trade twice.
updateVolumeTwice(r, trade) ==
  [r EXCEPT !.currentVolume = @ + 2 * tradeValue(trade)]

updateVolume(r, trade) ==
  [r EXCEPT !.currentVolume = r.currentVolume + tradeValue(trade)]

NoAuth == [called |-> FALSE, trade |-> [quantity |-> 0, price |-> 1],
           before |-> 0, res |-> [allowed |-> TRUE, reason |-> ""]]

NoScen == [v |-> 0, n |-> 0, allowed |-> 0, clean |-> TRUE, last |-> TRUE]

\* Once the rounds stop being identical the bookkeeping is dropped.
Dirty == [v |-> 0, n |-> 0, allowed |-> 0, clean |-> FALSE, last |-> TRUE]

GateIdle ==
  /\ rm = RiskManager(1)
  /\ auth = NoAuth
  /\ scen = NoScen

(***************************************************************************)
(* TradingAlgorithms (algorithms/tradingAlgorithms.js).                    *)
(*                                                                         *)
(* The source's window and period constants are scaled down so that every  *)
(* price window can be enumerated; the source's value is named beside each.*)
(***************************************************************************)
HistoryCapacity == 6    \* addPriceData keeps the last 200 samples
DefaultLimit    == 5    \* getPriceHistory's default limit, 50
SmaShortDefault == 2    \* smaCrossover's default shortPeriod, 10
SmaLongDefault  == 3    \* smaCrossover's default longPeriod, 20
RsiPeriodDefault == 1   \* rsiStrategy's default period, 14
BbPeriodDefault == 3    \* bollingerBandsStrategy's default period, 20

RsiOverbought == 70

RsiOversold == 30

BbStdDev == 2

Prices == {1, 4}        \* the prices a sample may carry, in ticks

Abs(x) == IF x < 0 THEN -x ELSE x

\* Array.prototype.slice(-n): the last n elements; slice(-0) is slice(0), the
\* whole array.
SliceLast(s, n) ==
  IF n = 0 \/ n >= Len(s) THEN s ELSE SubSeq(s, Len(s) - n + 1, Len(s))

RECURSIVE SumSeq(_)
SumSeq(s) == IF s = <<>> THEN 0 ELSE s[1] + SumSeq(Tail(s))

\* A store that drops the newest sample when it is full (pop for shift).
addPriceDataDropNewest(history, price, timestamp) ==
  LET pushed == Append(history, [price |-> price, timestamp |-> timestamp])
  IN IF Len(pushed) > HistoryCapacity THEN SubSeq(pushed, 1, Len(pushed) - 1) ELSE pushed

addPriceData(history, price, timestamp) ==
  LET pushed == Append(history, [price |-> price, timestamp |-> timestamp])
  IN IF Len(pushed) > HistoryCapacity THEN Tail(pushed) ELSE pushed

getPriceHistory(history, limit) == SliceLast(history, limit)

PricesOf(history) ==
  LET h == getPriceHistory(history, DefaultLimit)
  IN [k \in 1..Len(h) |-> h[k].price]

(***************************************************************************)
(* The indicators of the technicalindicators package, as the generators    *)
(* use them.  A value is kept as an integer numerator over a denominator   *)
(* the caller knows.                                                       *)
(***************************************************************************)

\* SMA.calculate: the trailing sums of `period` values (each over period).
\* The library does not test the period: with period 0 its window holds one
\* value and every sample yields that value over 0 (Infinity); the callers'
\* comparisons by cross-multiplication treat x/0, x > 0, as Infinity does.
SMASums(period, values) ==
  IF period = 0 THEN [k \in 1..Len(values) |-> values[k]]
  ELSE IF Len(values) < period THEN <<>>
  ELSE [k \in 1..(Len(values) - period + 1) |->
          SumSeq(SubSeq(values, k, k + period - 1))]

Gain(values, j) == Max(values[j + 1] - values[j], 0)

Loss(values, j) == Max(values[j] - values[j + 1], 0)

\* AverageGain / AverageLoss (Wilder): the k-th average, k >= 1, is defined
\* once period changes were seen; the first is the mean of the first period
\* gains, every later one (previous * (period - 1) + gain) / period.  Result:
\* <<gain numerator, loss numerator>> over the common denominator period^k.
RECURSIVE WilderAvg(_, _, _)
WilderAvg(values, period, k) ==
  IF k = 1
    THEN << SumSeq([j \in 1..period |-> Gain(values, j)]),
            SumSeq([j \in 1..period |-> Loss(values, j)]) >>
    ELSE LET prev == WilderAvg(values, period, k - 1)
             j    == period + k - 1
         IN << prev[1] * (period - 1) + Gain(values, j) * (period ^ (k - 1)),
               prev[2] * (period - 1) + Loss(values, j) * (period ^ (k - 1)) >>

\* The last value of RSI.calculate, in hundredths (the package rounds an RSI
\* to two decimals); values has more than period elements.
RSILast(period, values) ==
  LET a == WilderAvg(values, period, Len(values) - period)
      g == a[1]
      l == a[2]
  IN IF l = 0 THEN 10000
     ELSE IF g = 0 THEN 0
     ELSE (2 * 10000 * g + (g + l)) \div (2 * (g + l))

\* The last Bollinger band: with S the sum of the window and
\* V = period * (sum of squares) - S^2, middle = S / period and
\* upper, lower = (S +- stdDev * sqrt(V)) / period.
BBLast(period, values) ==
  LET w == SubSeq(values, Len(values) - period + 1, Len(values))
      S == SumSeq(w)
      Q == SumSeq([k \in 1..period |-> w[k] * w[k]])
  IN [S |-> S, V |-> period * Q - S * S]

(***************************************************************************)
(* A confidence is the number (a + b*sqrt(V)) / (c + d*sqrt(V)), with a    *)
(* positive denominator; a rational has b = d = 0.                         *)
(***************************************************************************)
Rational(n, d) == [a |-> n, b |-> 0, c |-> d, d |-> 0, V |-> 0]

\* x + y*sqrt(V) > 0
SurdPositive(x, y, V) ==
  IF y = 0 \/ V = 0 THEN x > 0
  ELSE IF y > 0 THEN x >= 0 \/ x * x < y * y * V
  ELSE x > 0 /\ x * x > y * y * V

\* conf > tn / td, for td > 0
ConfGT(conf, tn, td) ==
  SurdPositive(td * conf.a - tn * conf.c, td * conf.b - tn * conf.d, conf.V)

Hold(reason) ==
  [signal |-> "HOLD", reason |-> reason, hasConfidence |-> FALSE,
   confidence |-> Rational(0, 1)]

Sig(signal, reason, conf) ==
  [signal |-> signal, reason |-> reason, hasConfidence |-> TRUE,
   confidence |-> conf]

\* A length test that never finds the data insufficient.
InsufficientNever(prices, longPeriod) == FALSE

\* prices.length < longPeriod
InsufficientData(prices, longPeriod) == Len(prices) < longPeriod

\* A bullish test that needs the short SMA strictly below the long one before.
BullishStrict(previousShort, previousLong, currentShort, currentLong) ==
  previousShort < previousLong /\ currentShort > currentLong

\* previousShort <= previousLong && currentShort > currentLong
BullishCrossover(previousShort, previousLong, currentShort, currentLong) ==
  previousShort <= previousLong /\ currentShort > currentLong

\* previousShort >= previousLong && currentShort < currentLong
BearishCrossover(previousShort, previousLong, currentShort, currentLong) ==
  previousShort >= previousLong /\ currentShort < currentLong

smaCrossover(history, shortPeriod, longPeriod) ==
  LET prices   == PricesOf(history)
      shortSMA == SMASums(shortPeriod, prices)
      longSMA  == SMASums(longPeriod, prices)
      cS == shortSMA[Len(shortSMA)]
      cL == longSMA[Len(longSMA)]
      pS == shortSMA[Len(shortSMA) - 1]
      pL == longSMA[Len(longSMA) - 1]
      conf == Rational(Abs(cS * longPeriod - cL * shortPeriod), cL * shortPeriod)
  IN IF InsufficientData(prices, longPeriod) THEN Hold("Insufficient data")
     ELSE IF Len(shortSMA) < 2 \/ Len(longSMA) < 2 THEN Hold("Insufficient SMA data")
     ELSE IF BullishCrossover(pS * longPeriod, pL * shortPeriod,
                              cS * longPeriod, cL * shortPeriod)
       THEN Sig("BUY", "Bullish SMA crossover", conf)
     ELSE IF BearishCrossover(pS * longPeriod, pL * shortPeriod,
                              cS * longPeriod, cL * shortPeriod)
       THEN Sig("SELL", "Bearish SMA crossover", conf)
     ELSE Hold("No crossover detected")

rsiStrategy(history, period, overbought, oversold) ==
  LET prices == PricesOf(history)
      rsi    == RSILast(period, prices)
  IN IF Len(prices) < period + 1 THEN Hold("Insufficient data for RSI")
     ELSE IF rsi > 100 * overbought
       THEN Sig("SELL", "RSI overbought",
                Rational(rsi - 100 * overbought, 100 * overbought))
     ELSE IF rsi < 100 * oversold
       THEN Sig("BUY", "RSI oversold",
                Rational(100 * oversold - rsi, 100 * oversold))
     ELSE Hold("RSI in neutral zone")

bollingerBandsStrategy(history, period, stdDev) ==
  LET prices == PricesOf(history)
      bb     == BBLast(period, prices)
      price  == prices[Len(prices)]
      np     == period * price
  IN IF Len(prices) < period THEN Hold("Insufficient data for Bollinger Bands")
     \* currentPrice >= upper:  np - S - stdDev*sqrt(V) >= 0
     ELSE IF ~SurdPositive(bb.S - np, stdDev, bb.V)
       THEN Sig("SELL", "Price at upper Bollinger Band",
                [a |-> np - bb.S, b |-> -stdDev, c |-> bb.S, d |-> stdDev, V |-> bb.V])
     \* currentPrice <= lower:  S - stdDev*sqrt(V) - np >= 0
     ELSE IF ~SurdPositive(np - bb.S, stdDev, bb.V)
       THEN Sig("BUY", "Price at lower Bollinger Band",
                [a |-> bb.S - np, b |-> -stdDev, c |-> bb.S, d |-> -stdDev, V |-> bb.V])
     ELSE Hold("Price within Bollinger Bands")

CountSignal(signals, what) ==
  Cardinality({k \in 1..Len(signals) : signals[k].signal = what})

\* The reasons of all three generators, agreeing or not.
ReasonsOfAll(signals, what) == [k \in 1..Len(signals) |-> signals[k].reason]

RECURSIVE ReasonsOf(_, _)
ReasonsOf(signals, what) ==
  IF signals = <<>> THEN <<>>
  ELSE (IF signals[1].signal = what THEN <<signals[1].reason>> ELSE <<>>)
       \o ReasonsOf(Tail(signals), what)

\* A vote carried by a single generator.
MajorityOfOne(count) == count >= 1

\* buySignals >= 2, sellSignals >= 2
Majority(count) == count >= 2

\* The vote of combinedStrategy over the three generators' signals.
CombineSignals(smaSignal, rsiSignal, bbSignal) ==
  LET signals     == <<smaSignal, rsiSignal, bbSignal>>
      buySignals  == CountSignal(signals, "BUY")
      sellSignals == CountSignal(signals, "SELL")
      individual  == [sma |-> smaSignal, rsi |-> rsiSignal, bollinger |-> bbSignal]
  IN IF Majority(buySignals)
       THEN [signal |-> "BUY", hasConfidence |-> TRUE,
             confidence |-> Rational(buySignals, 3),
             reasons |-> ReasonsOf(signals, "BUY"), individualSignals |-> individual]
     ELSE IF Majority(sellSignals)
       THEN [signal |-> "SELL", hasConfidence |-> TRUE,
             confidence |-> Rational(sellSignals, 3),
             reasons |-> ReasonsOf(signals, "SELL"), individualSignals |-> individual]
     ELSE [signal |-> "HOLD", hasConfidence |-> TRUE,
           confidence |-> Rational(0, 1),
           reasons |-> <<>>, individualSignals |-> individual]

combinedStrategy(history) ==
  CombineSignals(smaCrossover(history, SmaShortDefault, SmaLongDefault),
                 rsiStrategy(history, RsiPeriodDefault, RsiOverbought, RsiOversold),
                 bollingerBandsStrategy(history, BbPeriodDefault, BbStdDev))

(***************************************************************************)
(* server.js: the AlphaFxTraderServer object.  Two of the five tracked     *)
(* symbols are kept.  A notional is quantity * price with the price in     *)
(* ticks; the two-pip spread is below one tick, so bid = ask = mid.        *)
(***************************************************************************)
Symbols == <<"EUR/USD", "GBP/USD">>

SymbolSet == {Symbols[k] : k \in 1..Len(Symbols)}

\* quantity: 10000, "Fixed quantity for auto-trading"
AutoQuantity == 10000

\* price ticks the feed delivers before it goes quiet
MaxTicks == 4

\* the values MAX_TRADING_VOLUME is started with
MaxVolumes == {2 * AutoQuantity, 5 * AutoQuantity}

\* manual trades are accepted up to this far beyond the limit
VolumeSlack == 4 * AutoQuantity

\* stop notifications are counted up to this many
MaxNotices == 2

NoSession == [status |-> "NONE"]

\* The trading state the constructor sets, from the environment's two values.
Server(autoTradingEnabled, maxVolume) ==
  [running |-> TRUE,
   isAutoTrading |-> autoTradingEnabled,
   maxTradingVolume |-> maxVolume,
   currentTradingVolume |-> 0,
   tradingSession |-> NoSession,
   stopNotices |-> 0]

\* No trade was submitted.
NoTradeData == [symbol |-> "", action |-> "NONE", quantity |-> 0, algorithm |-> ""]

\* runTradingAlgorithms' tradeData for a symbol's signal
TradeData(symbol, signal) ==
  [symbol |-> symbol, action |-> signal.signal, quantity |-> AutoQuantity,
   algorithm |-> "COMBINED"]

IdleTick == [pc |-> "idle", k |-> 0, tradeData |-> NoTradeData]

EmptyStore == [s \in SymbolSet |-> <<>>]

ServerIdle ==
  /\ srv = [Server(FALSE, 2 * AutoQuantity) EXCEPT !.running = FALSE]
  /\ store = EmptyStore
  /\ tick = IdleTick

\* The latest price_data row of a symbol: updatePrices inserts the row and feeds
\* the store with the same sample.
HasPrice(st, symbol) == st[symbol] # <<>>

LatestPrice(st, symbol) == st[symbol][Len(st[symbol])].price

\* The timestamp of the feed's next delivery.
NextStamp(st) ==
  LET h == st[Symbols[1]]
  IN IF h = <<>> THEN 1 ELSE h[Len(h)].timestamp + 1

\* updatePrices: every symbol's new rate goes to the store.
updatePrices(st, rates, timestamp) ==
  [s \in SymbolSet |-> addPriceData(st[s], rates[s], timestamp)]

\* The cron callback's guard on a trading tick.
TickGuard(s) == s.isAutoTrading /\ s.currentTradingVolume < s.maxTradingVolume

\* A test that lets only BUY verdicts through.
ShouldTradeOnBuy(signal) == signal.signal = "BUY" /\ ConfGT(signal.confidence, 3, 5)

\* runTradingAlgorithms' test on a symbol's combined signal: confidence > 0.6
ShouldTrade(signal) == signal.signal # "HOLD" /\ ConfGT(signal.confidence, 3, 5)

\* executeTrade: the trade is filled at the latest price and its notional is
\* added to the volume.  No limit is consulted.
executeTrade(s, st, symbol, quantity) ==
  [s EXCEPT !.currentTradingVolume = @ + quantity * LatestPrice(st, symbol)]

\* A stop test that misses the exact limit.
CapExceeded(s) == s.currentTradingVolume > s.maxTradingVolume

\* updateTradingSession's stop test
CapReached(s) == s.currentTradingVolume >= s.maxTradingVolume

\* A session tick that switches automated trading back on below the limit.
StopOnCapResuming(s) ==
  IF CapReached(s)
    THEN [s EXCEPT !.isAutoTrading = FALSE,
                   !.tradingSession = [status |-> "STOPPED"],
                   !.stopNotices = IF @ < MaxNotices THEN @ + 1 ELSE @]
    ELSE [s EXCEPT !.isAutoTrading = TRUE,
                   !.tradingSession = [status |-> "ACTIVE"]]

\* updateTradingSession's stop: the flag, the status and the notification.
StopOnCap(s) ==
  IF CapReached(s)
    THEN [s EXCEPT !.isAutoTrading = FALSE,
                   !.tradingSession = [status |-> "STOPPED"],
                   !.stopNotices = IF @ < MaxNotices THEN @ + 1 ELSE @]
    ELSE s

\* updateTradingSession: start a session if there is none, then the stop test.
updateTradingSession(s) ==
  StopOnCap(IF s.tradingSession = NoSession
              THEN [s EXCEPT !.tradingSession = [status |-> "ACTIVE"]]
              ELSE s)

\* shutdown: automated trading off, and the process ends.
shutdown(s) == [s EXCEPT !.isAutoTrading = FALSE, !.running = FALSE]

(***************************************************************************)
(* algorithmRoutes (routes/algorithmRoutes.js): GET /signals/:symbol,      *)
(* POST /backtest and runBacktest, for one symbol.                         *)
(***************************************************************************)
MaxRows         == 6    \* price_data rows the model follows
SignalRows      == 5    \* GET /signals/:symbol reads the last 50 rows
MinSignalRows   == 3    \* and needs 20 of them
MinBacktestRows == 5    \* POST /backtest needs 50 rows
Lookback        == 3    \* runBacktest's first replayed index, 20

Capitals == {30, 70}   \* initialCapital

Undefined == <<>>

Given(x) == <<x>>

OrDefault(p, d) == IF p = Undefined THEN d ELSE p[1]

NoParams ==
  [shortPeriod |-> Undefined, longPeriod |-> Undefined, period |-> Undefined,
   overbought |-> Undefined, oversold |-> Undefined, stdDev |-> Undefined]

\* The (algorithm, parameters) pairs a backtest is requested with.
Strategies ==
  { <<"sma_crossover", NoParams>>,
    <<"sma_crossover", [NoParams EXCEPT !.shortPeriod = Given(1), !.longPeriod = Given(2)]>>,
    <<"sma_crossover", [NoParams EXCEPT !.shortPeriod = Given(0), !.longPeriod = Given(2)]>>,
    <<"rsi", NoParams>>,
    <<"rsi", [NoParams EXCEPT !.period = Given(2), !.overbought = Given(40),
                              !.oversold = Given(30)]>>,
    <<"bollinger", NoParams>>,
    <<"bollinger", [NoParams EXCEPT !.period = Given(2), !.stdDev = Given(0)]>>,
    <<"combined", NoParams>>,
    <<"macd", NoParams>> }

\* The rows from..to of price_data, as the queries return them (timestamp ASC).
RowsOf(rows, from, to) ==
  [k \in 1..(to - from + 1) |-> [mid_price |-> rows[from + k - 1], timestamp |-> from + k - 1]]

RECURSIVE AddAll(_, _)
AddAll(history, priceData) ==
  IF priceData = <<>> THEN history
  ELSE AddAll(addPriceData(history, priceData[1].mid_price, priceData[1].timestamp),
              Tail(priceData))

\* A route that starts runBacktest on the price history as it finds it.
PreloadNothing(history, priceData) == history

\* POST /backtest: "Add price data to trading algorithms".
Preload(history, priceData) == AddAll(history, priceData)

NoSignal ==
  [signal |-> "NONE", reason |-> "", hasConfidence |-> FALSE, confidence |-> Rational(0, 1)]

\* A combined signal seen as a signal: runBacktest reads .signal and .confidence only.
AsSignal(c) ==
  [signal |-> c.signal, reason |-> "", hasConfidence |-> c.hasConfidence,
   confidence |-> c.confidence]

\* runBacktest's switch (algorithm.toLowerCase()); no case leaves signal null.
SignalFor(algorithm, parameters, history) ==
  CASE algorithm = "sma_crossover" ->
         smaCrossover(history, OrDefault(parameters.shortPeriod, SmaShortDefault),
                      OrDefault(parameters.longPeriod, SmaLongDefault))
    [] algorithm = "rsi" ->
         rsiStrategy(history, OrDefault(parameters.period, RsiPeriodDefault),
                     OrDefault(parameters.overbought, RsiOverbought),
                     OrDefault(parameters.oversold, RsiOversold))
    [] algorithm = "bollinger" ->
         bollingerBandsStrategy(history, OrDefault(parameters.period, BbPeriodDefault),
                                OrDefault(parameters.stdDev, BbStdDev))
    [] algorithm = "combined" -> AsSignal(combinedStrategy(history))
    [] OTHER -> NoSignal

\* signal && signal.signal !== 'HOLD' && signal.confidence > 0.5
Actionable(signal) ==
  /\ signal.signal \in {"BUY", "SELL"}
  /\ signal.hasConfidence
  /\ ConfGT(signal.confidence, 1, 2)

\* A size rounded up instead of down.
QuantityCeil(capital, currentPrice) ==
  (capital + 10 * currentPrice - 1) \div (10 * currentPrice)

\* Math.floor(capital * 0.1 / currentPrice)
Quantity(capital, currentPrice) == capital \div (10 * currentPrice)

BuyTrade(quantity, price, timestamp, capital) ==
  [action |-> "BUY", quantity |-> quantity, price |-> price, timestamp |-> timestamp,
   hasPnl |-> FALSE, pnl |-> 0, capital |-> capital]

SellTrade(quantity, price, timestamp, pnl, capital) ==
  [action |-> "SELL", quantity |-> quantity, price |-> price, timestamp |-> timestamp,
   hasPnl |-> TRUE, pnl |-> pnl, capital |-> capital]

\* The SELL of "Close any remaining position": it carries no pnl.
CloseTrade(quantity, price, timestamp, capital) ==
  [action |-> "SELL", quantity |-> quantity, price |-> price, timestamp |-> timestamp,
   hasPnl |-> FALSE, pnl |-> 0, capital |-> capital]

NoResult ==
  [finalCapital |-> 0, totalReturn |-> 0, totalTrades |-> 0, winningTrades |-> 0,
   winRate |-> 0, sharpeRatio |-> 0, maxDrawdown |-> 0, trades |-> <<>>]

IdleBt ==
  [pc |-> "idle", algorithm |-> "", parameters |-> NoParams, priceData |-> <<>>,
   initialCapital |-> 0, i |-> 0, capital |-> 0, position |-> 0, trades |-> <<>>,
   maxCapital |-> 0, maxDrawdown |-> <<0, 1>>, signal |-> NoSignal, result |-> NoResult,
   sharedBefore |-> FALSE]

\* runBacktest's locals before the loop; i is the 0-based loop index.
\* sharedBefore is bookkeeping: the route found samples in the price history.
StartBt(algorithm, parameters, priceData, initialCapital) ==
  [pc |-> "loop", algorithm |-> algorithm, parameters |-> parameters,
   priceData |-> priceData, initialCapital |-> initialCapital, i |-> Lookback,
   capital |-> initialCapital, position |-> 0, trades |-> <<>>,
   maxCapital |-> initialCapital, maxDrawdown |-> <<0, 1>>, signal |-> NoSignal,
   result |-> NoResult, sharedBefore |-> FALSE]

\* A simulator that buys whatever it holds.
CanOpenAlways(position) == TRUE

\* signal.signal === 'BUY' && position <= 0
CanOpen(position) == position <= 0

\* signal.signal === 'SELL' && position > 0
CanClose(position) == position > 0

\* "Execute trade based on signal": the locals after the trade of one step.
ExecuteSignal(b, signal, currentPrice, currentTime, previousPrice) ==
  LET quantity == Quantity(b.capital, currentPrice)
      cost     == quantity * currentPrice
      proceeds == b.position * currentPrice
  IN IF ~(Actionable(signal) /\ quantity > 0) THEN b
     ELSE IF signal.signal = "BUY" /\ CanOpen(b.position)
       THEN IF cost <= b.capital
              THEN [b EXCEPT !.capital = b.capital - cost,
                             !.position = b.position + quantity,
                             !.trades = Append(b.trades,
                                BuyTrade(quantity, currentPrice, currentTime,
                                         (b.capital - cost) + (b.position + quantity) * currentPrice))]
              ELSE b
     ELSE IF signal.signal = "SELL" /\ CanClose(b.position)
       THEN [b EXCEPT !.capital = b.capital + proceeds,
                      !.position = 0,
                      !.trades = Append(b.trades,
                         SellTrade(b.position, currentPrice, currentTime,
                                   proceeds - b.position * previousPrice,
                                   b.capital + proceeds))]
     ELSE b

\* A tracker that measures every drawdown from the initial capital.
UpdateDrawdownFromStart(b, currentPrice) ==
  LET currentCapital == b.capital + b.position * currentPrice
      drawdown       == <<Max(b.maxCapital - currentCapital, 0), b.maxCapital>>
  IN [b EXCEPT !.maxDrawdown =
                  IF drawdown[1] * b.maxDrawdown[2] > b.maxDrawdown[1] * drawdown[2]
                    THEN drawdown ELSE b.maxDrawdown]

\* "Update max capital and drawdown"; the drawdown is a pair <<num, den>>.
UpdateDrawdown(b, currentPrice) ==
  LET currentCapital == b.capital + b.position * currentPrice
      maxCapital     == Max(b.maxCapital, currentCapital)
      drawdown       == <<maxCapital - currentCapital, maxCapital>>
  IN [b EXCEPT !.maxCapital = maxCapital,
               !.maxDrawdown =
                  IF drawdown[1] * b.maxDrawdown[2] > b.maxDrawdown[1] * drawdown[2]
                    THEN drawdown ELSE b.maxDrawdown]

\* One iteration of runBacktest's loop, on bt b and price history h.
StepBt(b, h) ==
  LET row          == b.priceData[b.i + 1]
      currentPrice == row.mid_price
      currentTime  == row.timestamp
      h2           == addPriceData(h, currentPrice, currentTime)
      signal       == SignalFor(b.algorithm, b.parameters, h2)
      traded       == ExecuteSignal(b, signal, currentPrice, currentTime,
                                    b.priceData[b.i].mid_price)
  IN [b |-> [UpdateDrawdown(traded, currentPrice) EXCEPT !.i = b.i + 1, !.signal = signal],
      h |-> h2]

\* Number.prototype.toFixed(2) of n/d, d > 0, as a number of hundredths.
ToFixed2(n, d) ==
  LET h == (200 * Abs(n) + d) \div (2 * d)
  IN IF n < 0 THEN -h ELSE h

\* The largest r in lo..hi with r * r <= n.
RECURSIVE ISqrtIn(_, _, _)
ISqrtIn(n, lo, hi) ==
  IF lo >= hi THEN lo
  ELSE LET mid == (lo + hi + 1) \div 2
       IN IF mid * mid <= n THEN ISqrtIn(n, mid, hi) ELSE ISqrtIn(n, lo, mid - 1)

ISqrt(n) == ISqrtIn(n, 0, Min(n, 46340))

\* "Calculate Sharpe ratio (simplified)": mean over population deviation of
\* the defined pnls, to two decimals, in hundredths.  With T the sum of the n
\* pnls and W = n * (sum of squares) - T^2 the ratio is T / sqrt(W).
SharpeRatio(trades) ==
  LET returns == SelectSeq(trades, LAMBDA t : t.hasPnl)
      n == Len(returns)
      T == SumSeq([k \in 1..n |-> returns[k].pnl])
      W == n * SumSeq([k \in 1..n |-> returns[k].pnl * returns[k].pnl]) - T * T
      h == (ISqrt((40000 * T * T) \div W) + 1) \div 2
  IN IF n = 0 \/ W = 0 THEN 0 ELSE IF T < 0 THEN -h ELSE h

\* A closing block that records the last SELL and forgets its proceeds.
FinishBtUnpaid(b) ==
  LET n      == Len(b.priceData)
      trades == IF b.position > 0
                  THEN Append(b.trades,
                         CloseTrade(b.position, b.priceData[n].mid_price,
                                    b.priceData[n].timestamp, b.capital))
                  ELSE b.trades
  IN [b EXCEPT !.pc = "done", !.trades = trades,
               !.result = [NoResult EXCEPT !.finalCapital = b.capital,
                                           !.totalTrades = Len(trades),
                                           !.trades = trades]]

\* "Close any remaining position" and "Calculate performance metrics".
FinishBt(b) ==
  LET n          == Len(b.priceData)
      finalPrice == b.priceData[n].mid_price
      proceeds   == b.position * finalPrice
      capital    == IF b.position > 0 THEN b.capital + proceeds ELSE b.capital
      trades     == IF b.position > 0
                      THEN Append(b.trades,
                             CloseTrade(b.position, finalPrice, b.priceData[n].timestamp, capital))
                      ELSE b.trades
      totalTrades   == Len(trades)
      winningTrades == Cardinality({k \in 1..totalTrades :
                                      trades[k].hasPnl /\ trades[k].pnl > 0})
  IN [b EXCEPT
        !.pc = "done",
        !.capital = capital,
        !.trades = trades,
        !.result =
          [finalCapital  |-> capital,
           totalReturn   |-> ToFixed2(100 * (capital - b.initialCapital), b.initialCapital),
           totalTrades   |-> totalTrades,
           winningTrades |-> winningTrades,
           winRate       |-> IF totalTrades > 0
                               THEN ToFixed2(100 * winningTrades, totalTrades) ELSE 0,
           sharpeRatio   |-> SharpeRatio(trades),
           maxDrawdown   |-> ToFixed2(100 * b.maxDrawdown[1], b.maxDrawdown[2]),
           trades        |-> trades]]

\* runBacktest from its first line to its return, on price history h.
RECURSIVE RunBacktest(_, _)
RunBacktest(b, h) ==
  IF b.i < Len(b.priceData)
    THEN LET s == StepBt(b, h) IN RunBacktest(s.b, s.h)
    ELSE [b |-> FinishBt(b), h |-> h]

NoResp == [kind |-> "none", status |-> 0, signals |-> <<>>, result |-> NoResult]

EngineIdle ==
  /\ db = <<>>
  /\ hist = <<>>
  /\ bt = IdleBt
  /\ resp = NoResp

(***************************************************************************)
(* A TradingAlgorithms object followed with its indicators map, driven     *)
(* call by call on two symbols of which one is a prefix of the other.  A   *)
(* string is the sequence of its pieces, cut where the calls below look:   *)
(* "EUR/USDT_RSI" is <<"EUR/USD", "T", "_", "RSI">>.  written is           *)
(* bookkeeping: per symbol, the latest value the generator calls for that  *)
(* symbol stored under each indicator name.                                *)
(***************************************************************************)
CacheSamples == 4   \* samples fed per symbol

ShortSymbol == <<"EUR/USD">>

LongSymbol == <<"EUR/USD", "T">>

CacheSymbols == {ShortSymbol, LongSymbol}

\* the (symbol, price) pairs addPriceData is called with
CacheFeed == {<<ShortSymbol, 1>>, <<ShortSymbol, 4>>, <<LongSymbol, 2>>}

EmptyMap == [k \in {} |-> 0]

\* the template literal `${symbol}_NAME`
IndicatorKey(symbol, name) == symbol \o <<"_">> \o name

\* String.prototype.startsWith
StartsWith(str, prefix) ==
  Len(prefix) <= Len(str) /\ SubSeq(str, 1, Len(prefix)) = prefix

\* String.prototype.replace(pattern, ''): the first occurrence is removed
ReplaceFirst(str, pattern) ==
  LET hits == {i \in 1..(Len(str) - Len(pattern) + 1) :
                 SubSeq(str, i, i + Len(pattern) - 1) = pattern}
      first == CHOOSE i \in hits : \A j \in hits : i <= j
  IN IF hits = {} THEN str
     ELSE SubSeq(str, 1, first - 1) \o SubSeq(str, first + Len(pattern), Len(str))

\* Map.prototype.set
MapSet(map, key, value) == (key :> value) @@ map

\* this.indicators.set(key, value) for each <<name, value>> of entries, the
\* key being prefix and name
RECURSIVE SetAll(_, _, _)
SetAll(map, prefix, entries) ==
  IF entries = <<>> THEN map
  ELSE SetAll(MapSet(map, prefix \o entries[1][1], entries[1][2]), prefix, Tail(entries))

\* What smaCrossover stores: <<name, value>> pairs, an SMA as <<sum, period>>.
smaIndicators(history, shortPeriod, longPeriod) ==
  LET prices   == PricesOf(history)
      shortSMA == SMASums(shortPeriod, prices)
      longSMA  == SMASums(longPeriod, prices)
  IN IF InsufficientData(prices, longPeriod) THEN <<>>
     ELSE IF Len(shortSMA) < 2 \/ Len(longSMA) < 2 THEN <<>>
     ELSE << <<(<<"SMA_SHORT">>), <<shortSMA[Len(shortSMA)], shortPeriod>> >>,
             <<(<<"SMA_LONG">>), <<longSMA[Len(longSMA)], longPeriod>> >> >>

\* What rsiStrategy stores: the RSI in hundredths.
rsiIndicators(history, period) ==
  LET prices == PricesOf(history)
  IN IF Len(prices) < period + 1 THEN <<>>
     ELSE << <<(<<"RSI">>), RSILast(period, prices)>> >>

\* What bollingerBandsStrategy stores: a band (S + k * sqrt(V)) / period as
\* [S, V, k, period].
bbIndicators(history, period, stdDev) ==
  LET prices == PricesOf(history)
      bb     == BBLast(period, prices)
      band(k) == [S |-> bb.S, V |-> bb.V, k |-> k, period |-> period]
  IN IF Len(prices) < period THEN <<>>
     ELSE << <<(<<"BB_UPPER">>), band(stdDev)>>,
             <<(<<"BB_MIDDLE">>), band(0)>>,
             <<(<<"BB_LOWER">>), band(-stdDev)>> >>

\* getIndicators(symbol).  (Two keys that give the same name do not occur
\* with these symbols.)
getIndicators(indicators, symbol) ==
  LET keys  == {key \in DOMAIN indicators : StartsWith(key, symbol)}
      names == {ReplaceFirst(key, symbol \o <<"_">>) : key \in keys}
  IN [indicatorName \in names |->
        indicators[CHOOSE key \in keys :
                     ReplaceFirst(key, symbol \o <<"_">>) = indicatorName]]

NoIndicatorsOut == [call |-> "none", symbol |-> <<>>, result |-> EmptyMap]

IndicatorsObject ==
  [priceHistory |-> [s \in CacheSymbols |-> <<>>],
   indicators   |-> EmptyMap,
   written      |-> [s \in CacheSymbols |-> EmptyMap],
   out          |-> NoIndicatorsOut]

IndicatorsIdle == ic = IndicatorsObject

\* the object after a generator call for symbol stored entries
Stored(o, symbol, entries) ==
  [o EXCEPT !.indicators = SetAll(@, IndicatorKey(symbol, <<>>), entries),
            !.written[symbol] = SetAll(@, <<>>, entries),
            !.out = NoIndicatorsOut]

(***************************************************************************)
(* A TradingAlgorithms object driven call by call: one symbol is fed, the  *)
(* other is never ingested.  appended is bookkeeping: every sample ever    *)
(* passed to addPriceData for the fed symbol, in call order.               *)
(***************************************************************************)
StoreSymbols == {"EUR/USD", "GBP/USD"}

FedSymbol == "EUR/USD"

StorePrices == {1, 2, 4}

\* calls of addPriceData before the callers stop: one past the capacity
MaxAppends == HistoryCapacity + 1

\* <<shortPeriod, longPeriod>>
SmaParams == {<<SmaShortDefault, SmaLongDefault>>, <<1, 2>>}

\* <<period, overbought, oversold>>
RsiParams == {<<RsiPeriodDefault, RsiOverbought, RsiOversold>>, <<2, 40, 30>>}

\* <<period, stdDev>>
BbParams == {<<BbPeriodDefault, BbStdDev>>, <<2, 0>>}

NoOut ==
  [call |-> "none", symbol |-> "", args |-> <<>>, samples |-> <<>>,
   signal |-> NoSignal]

\* constructor: this.priceHistory = new Map(); a symbol without an entry reads
\* as [] (priceHistory.get(symbol) || []).
TradingAlgorithms ==
  [priceHistory |-> [s \in StoreSymbols |-> <<>>], appended |-> <<>>, out |-> NoOut]

StoreIdle ==
  /\ ta = TradingAlgorithms
  /\ IndicatorsIdle

Returned(call, symbol, args, samples, signal) ==
  [call |-> call, symbol |-> symbol, args |-> args, samples |-> samples,
   signal |-> signal]

InitStore ==
  /\ StoreIdle
  /\ EngineIdle
  /\ GateIdle
  /\ ServerIdle

\* addPriceData(symbol, price, timestamp): the timestamp is the callers' clock
AddPriceData(price) ==
  LET timestamp == Len(ta.appended) + 1
  IN /\ Len(ta.appended) < MaxAppends
     /\ ta' = [ta EXCEPT
                 !.priceHistory[FedSymbol] = addPriceData(@, price, timestamp),
                 !.appended = Append(@, [price |-> price, timestamp |-> timestamp]),
                 !.out = NoOut]
     /\ UNCHANGED <<gateVars, engineVars, serverVars, ic>>

\* getPriceHistory(symbol, limit)
GetPriceHistory(symbol, limit) ==
  /\ ta' = [ta EXCEPT !.out =
              Returned("getPriceHistory", symbol, <<limit>>,
                       getPriceHistory(ta.priceHistory[symbol], limit), NoSignal)]
  /\ UNCHANGED <<gateVars, engineVars, serverVars, ic>>

\* smaCrossover(symbol, shortPeriod, longPeriod)
SmaCrossover(symbol, p) ==
  /\ ta' = [ta EXCEPT !.out =
              Returned("smaCrossover", symbol, p, <<>>,
                       smaCrossover(ta.priceHistory[symbol], p[1], p[2]))]
  /\ UNCHANGED <<gateVars, engineVars, serverVars, ic>>

\* rsiStrategy(symbol, period, overbought, oversold)
RsiStrategy(symbol, p) ==
  /\ ta' = [ta EXCEPT !.out =
              Returned("rsiStrategy", symbol, p, <<>>,
                       rsiStrategy(ta.priceHistory[symbol], p[1], p[2], p[3]))]
  /\ UNCHANGED <<gateVars, engineVars, serverVars, ic>>

\* bollingerBandsStrategy(symbol, period, stdDev)
BollingerBandsStrategy(symbol, p) ==
  /\ ta' = [ta EXCEPT !.out =
              Returned("bollingerBandsStrategy", symbol, p, <<>>,
                       bollingerBandsStrategy(ta.priceHistory[symbol], p[1], p[2]))]
  /\ UNCHANGED <<gateVars, engineVars, serverVars, ic>>

NextStore ==
  \/ \E price \in StorePrices : AddPriceData(price)
  \/ \E symbol \in StoreSymbols, limit \in 0..MaxAppends : GetPriceHistory(symbol, limit)
  \/ \E symbol \in StoreSymbols, p \in SmaParams : SmaCrossover(symbol, p)
  \/ \E symbol \in StoreSymbols, p \in RsiParams : RsiStrategy(symbol, p)
  \/ \E symbol \in StoreSymbols, p \in BbParams : BollingerBandsStrategy(symbol, p)

SpecStore == InitStore /\ [][NextStore]_vars

(***************************************************************************)
(* The object with its indicators map as a state machine.                  *)
(***************************************************************************)
InitIndicators ==
  /\ StoreIdle
  /\ EngineIdle
  /\ GateIdle
  /\ ServerIdle

\* addPriceData(symbol, price, timestamp)
FeedPrice(symbol, price) ==
  /\ Len(ic.priceHistory[symbol]) < CacheSamples
  /\ ic' = [ic EXCEPT !.priceHistory[symbol] = addPriceData(@, price, Len(@) + 1),
                      !.out = NoIndicatorsOut]
  /\ UNCHANGED <<gateVars, engineVars, serverVars, ta>>

\* smaCrossover(symbol)
CallSmaCrossover(symbol) ==
  /\ ic' = Stored(ic, symbol,
                  smaIndicators(ic.priceHistory[symbol], SmaShortDefault, SmaLongDefault))
  /\ UNCHANGED <<gateVars, engineVars, serverVars, ta>>

\* rsiStrategy(symbol)
CallRsiStrategy(symbol) ==
  /\ ic' = Stored(ic, symbol, rsiIndicators(ic.priceHistory[symbol], RsiPeriodDefault))
  /\ UNCHANGED <<gateVars, engineVars, serverVars, ta>>

\* bollingerBandsStrategy(symbol)
CallBollingerBands(symbol) ==
  /\ ic' = Stored(ic, symbol,
                  bbIndicators(ic.priceHistory[symbol], BbPeriodDefault, BbStdDev))
  /\ UNCHANGED <<gateVars, engineVars, serverVars, ta>>

\* getIndicators(symbol)
GetIndicators(symbol) ==
  /\ ic' = [ic EXCEPT !.out = [call |-> "getIndicators", symbol |-> symbol,
                               result |-> getIndicators(ic.indicators, symbol)]]
  /\ UNCHANGED <<gateVars, engineVars, serverVars, ta>>

NextIndicators ==
  \/ \E f \in CacheFeed : FeedPrice(f[1], f[2])
  \/ \E symbol \in CacheSymbols : CallSmaCrossover(symbol)
  \/ \E symbol \in CacheSymbols : CallRsiStrategy(symbol)
  \/ \E symbol \in CacheSymbols : CallBollingerBands(symbol)
  \/ \E symbol \in CacheSymbols : GetIndicators(symbol)

SpecIndicators == InitIndicators /\ [][NextIndicators]_vars

InitEngine ==
  /\ EngineIdle
  /\ GateIdle
  /\ ServerIdle
  /\ StoreIdle

\* updatePrices' INSERT INTO price_data, which the routes read back.
InsertPrice(price) ==
  /\ bt.pc = "idle"
  /\ Len(db) < MaxRows
  /\ db' = Append(db, price)
  /\ resp' = NoResp
  /\ UNCHANGED <<hist, bt>>
  /\ UNCHANGED <<gateVars, serverVars, storeVars>>

\* GET /signals/:symbol
GetSignals ==
  LET n         == Len(db)
      priceData == RowsOf(db, Max(1, n - SignalRows + 1), n)
      h2        == AddAll(hist, priceData)
  IN /\ bt.pc = "idle"
     /\ IF Len(priceData) < MinSignalRows
          THEN /\ resp' = [NoResp EXCEPT !.kind = "error", !.status = 400]
               /\ UNCHANGED hist
          ELSE /\ hist' = h2
               /\ resp' = [NoResp EXCEPT
                             !.kind = "signals", !.status = 200,
                             !.signals = << [sma |-> smaCrossover(h2, SmaShortDefault, SmaLongDefault),
                                             rsi |-> rsiStrategy(h2, RsiPeriodDefault, RsiOverbought, RsiOversold),
                                             bollinger |-> bollingerBandsStrategy(h2, BbPeriodDefault, BbStdDev),
                                             combined |-> combinedStrategy(h2)] >>]
     /\ UNCHANGED <<db, bt>>
     /\ UNCHANGED <<gateVars, serverVars, storeVars>>

\* POST /backtest up to runBacktest's first loop test; from..to are the rows
\* with a timestamp BETWEEN startDate AND endDate.
PostBacktest(strategy, from, to, initialCapital) ==
  LET priceData == RowsOf(db, from, to)
  IN /\ bt.pc = "idle"
     /\ IF Len(priceData) < MinBacktestRows
          THEN /\ resp' = [NoResp EXCEPT !.kind = "error", !.status = 400]
               /\ UNCHANGED <<hist, bt>>
          ELSE /\ hist' = Preload(hist, priceData)
               /\ bt' = [StartBt(strategy[1], strategy[2], priceData, initialCapital)
                          EXCEPT !.sharedBefore = (hist # <<>>)]
               /\ resp' = NoResp
     /\ UNCHANGED db
     /\ UNCHANGED <<gateVars, serverVars, storeVars>>

\* One iteration of runBacktest's loop.
BacktestStep ==
  /\ bt.pc = "loop"
  /\ bt.i < Len(bt.priceData)
  /\ LET s == StepBt(bt, hist)
     IN /\ bt' = s.b
        /\ hist' = s.h
  /\ UNCHANGED <<db, resp>>
  /\ UNCHANGED <<gateVars, serverVars, storeVars>>

\* The loop is over: close the position, compute the metrics, return.
BacktestFinish ==
  /\ bt.pc = "loop"
  /\ bt.i >= Len(bt.priceData)
  /\ bt' = FinishBt(bt)
  /\ UNCHANGED <<db, hist, resp>>
  /\ UNCHANGED <<gateVars, serverVars, storeVars>>

\* POST /backtest after runBacktest returned: respond 201 with the results.
BacktestRespond ==
  /\ bt.pc = "done"
  /\ bt' = IdleBt
  /\ resp' = [NoResp EXCEPT !.kind = "backtest", !.status = 201, !.result = bt.result]
  /\ UNCHANGED <<db, hist>>
  /\ UNCHANGED <<gateVars, serverVars, storeVars>>

NextEngine ==
  \/ \E p \in Prices : InsertPrice(p)
  \/ GetSignals
  \/ \E st \in Strategies, c \in Capitals :
       \E from \in 1..Len(db) : \E to \in from..Len(db) :
         PostBacktest(st, from, to, c)
  \/ BacktestStep
  \/ BacktestFinish
  \/ BacktestRespond

SpecEngine == InitEngine /\ [][NextEngine]_vars

(***************************************************************************)
(* The Risk Gate as a state machine.                                       *)
(***************************************************************************)
InitGate ==
  /\ \E m \in 1..MaxGateVolume : rm = RiskManager(m)
  /\ auth = NoAuth
  /\ scen = NoScen
  /\ EngineIdle
  /\ ServerIdle
  /\ StoreIdle

\* A caller asks the gate and does nothing else.
Authorize(trade) ==
  /\ auth' = [called |-> TRUE, trade |-> trade, before |-> rm.currentVolume,
              res |-> canExecuteTrade(rm, trade)]
  /\ UNCHANGED <<rm, scen>>
  /\ UNCHANGED <<engineVars, serverVars, storeVars>>

\* A caller records a trade without having asked the gate.
Record(trade) ==
  /\ rm.currentVolume + tradeValue(trade) <= rm.maxVolume + GateSlack
  /\ rm' = updateVolume(rm, trade)
  /\ scen' = Dirty
  /\ UNCHANGED auth
  /\ UNCHANGED <<engineVars, serverVars, storeVars>>

\* The caller's protocol: authorize, and on allow record the same trade.
AuthorizeThenRecord(trade) ==
  LET res == canExecuteTrade(rm, trade)
      same == scen.n = 0 \/ scen.v = tradeValue(trade)
  IN /\ scen.n < MaxGateVolume + GateSlack
     /\ scen.clean
     /\ auth' = [called |-> TRUE, trade |-> trade, before |-> rm.currentVolume,
                 res |-> res]
     /\ rm' = IF res.allowed THEN updateVolume(rm, trade) ELSE rm
     /\ scen' = IF same
                   THEN [v |-> tradeValue(trade),
                         n |-> scen.n + 1,
                         allowed |-> scen.allowed + (IF res.allowed THEN 1 ELSE 0),
                         clean |-> TRUE,
                         last |-> res.allowed]
                   ELSE Dirty
     /\ UNCHANGED <<engineVars, serverVars, storeVars>>

NextGate ==
  \/ \E t \in GateTrades : Authorize(t)
  \/ \E t \in GateTrades : Record(t)
  \/ \E t \in GateTrades : AuthorizeThenRecord(t)

SpecGate == InitGate /\ [][NextGate]_vars

(***************************************************************************)
(* The server as a state machine: the cron callbacks and the socket        *)
(* handlers.  runTradingAlgorithms awaits executeTrade for each symbol, so *)
(* the other callbacks run between two symbols of one tick.                *)
(***************************************************************************)
InitServer ==
  /\ \E a \in BOOLEAN, m \in MaxVolumes : srv = Server(a, m)
  /\ store = EmptyStore
  /\ tick = IdleTick
  /\ EngineIdle
  /\ GateIdle
  /\ StoreIdle

\* every 5 seconds: updatePrices
PriceTick(rates) ==
  /\ srv.running
  /\ NextStamp(store) <= MaxTicks
  /\ store' = updatePrices(store, rates, NextStamp(store))
  /\ UNCHANGED <<srv, tick>>
  /\ UNCHANGED <<gateVars, engineVars, storeVars>>

\* every 10 seconds: the guard, and runTradingAlgorithms if it passes
TradingTick ==
  /\ srv.running
  /\ tick.pc = "idle"
  /\ tick' = IF TickGuard(srv) THEN [IdleTick EXCEPT !.pc = "run", !.k = 1] ELSE IdleTick
  /\ UNCHANGED <<srv, store>>
  /\ UNCHANGED <<gateVars, engineVars, storeVars>>

\* A loop that looks at the guard again before every symbol and gives up.
TickSymbolGuarded ==
  /\ srv.running
  /\ tick.pc = "run"
  /\ LET symbol == Symbols[tick.k]
         signal == combinedStrategy(store[symbol])
         go     == TickGuard(srv) /\ ShouldTrade(signal)
         tradeData == IF go THEN TradeData(symbol, signal) ELSE NoTradeData
     IN /\ srv' = IF go THEN executeTrade(srv, store, tradeData.symbol, tradeData.quantity)
                        ELSE srv
        /\ tick' = IF TickGuard(srv) /\ tick.k < Len(Symbols)
                     THEN [tick EXCEPT !.k = @ + 1, !.tradeData = tradeData]
                     ELSE [IdleTick EXCEPT !.tradeData = tradeData]
  /\ UNCHANGED store
  /\ UNCHANGED <<gateVars, engineVars, storeVars>>

\* one pass of runTradingAlgorithms' loop
TickSymbol ==
  /\ srv.running
  /\ tick.pc = "run"
  /\ LET symbol == Symbols[tick.k]
         signal == combinedStrategy(store[symbol])
         tradeData == IF ShouldTrade(signal) THEN TradeData(symbol, signal)
                                             ELSE NoTradeData
     IN /\ srv' = IF ShouldTrade(signal)
                    THEN executeTrade(srv, store, tradeData.symbol, tradeData.quantity)
                    ELSE srv
        /\ tick' = IF tick.k < Len(Symbols)
                     THEN [tick EXCEPT !.k = @ + 1, !.tradeData = tradeData]
                     ELSE [IdleTick EXCEPT !.tradeData = tradeData]
  /\ UNCHANGED store
  /\ UNCHANGED <<gateVars, engineVars, storeVars>>

\* every minute: updateTradingSession
SessionTick ==
  /\ srv.running
  /\ srv' = updateTradingSession(srv)
  /\ UNCHANGED <<store, tick>>
  /\ UNCHANGED <<gateVars, engineVars, storeVars>>

\* socket 'execute_trade': executeTrade, or trade_error without a price row
ManualTrade(symbol, quantity) ==
  /\ srv.running
  /\ IF HasPrice(store, symbol)
       THEN /\ srv.currentTradingVolume + quantity * LatestPrice(store, symbol)
                 <= srv.maxTradingVolume + VolumeSlack
            /\ srv' = executeTrade(srv, store, symbol, quantity)
       ELSE UNCHANGED srv
  /\ UNCHANGED <<store, tick>>
  /\ UNCHANGED <<gateVars, engineVars, storeVars>>

\* socket 'analyze_symbol': analyzeSymbol reads the store and answers
AnalyzeSymbol(symbol) ==
  /\ srv.running
  /\ UNCHANGED serverVars
  /\ UNCHANGED <<gateVars, engineVars, storeVars>>

\* SIGINT, SIGTERM
Shutdown ==
  /\ srv.running
  /\ srv' = shutdown(srv)
  /\ UNCHANGED <<store, tick>>
  /\ UNCHANGED <<gateVars, engineVars, storeVars>>

NextServer ==
  \/ \E rates \in [SymbolSet -> Prices] : PriceTick(rates)
  \/ TradingTick
  \/ TickSymbol
  \/ SessionTick
  \/ \E symbol \in SymbolSet : ManualTrade(symbol, AutoQuantity)
  \/ \E symbol \in SymbolSet : AnalyzeSymbol(symbol)
  \/ Shutdown

SpecServer == InitServer /\ [][NextServer]_vars

\* node-cron fires the session callback every minute for as long as the
\* process runs.
SpecServerFair == SpecServer /\ WF_vars(SessionTick)

(***************************************************************************)
(* Claims about the Risk Gate.                                             *)
(***************************************************************************)

\* C2: once currentVolume >= maxVolume, every canExecuteTrade call is denied,
\* whatever the trade's quantity and price (a zero-notional trade included).
C2_SaturatedGateDenies ==
  (auth.called /\ auth.before >= rm.maxVolume) => ~auth.res.allowed

\* C3: canExecuteTrade allows exactly when currentVolume + quantity*price <=
\* maxVolume and otherwise denies with "Maximum trading volume exceeded"; from
\* an empty session, identical authorize-then-record rounds of notional v > 0
\* are allowed exactly floor(maxVolume / v) times and denied from then on.
C3_AuthorizeRule ==
  /\ auth.called =>
       /\ auth.res.allowed <=>
            (auth.before + auth.trade.quantity * auth.trade.price <= rm.maxVolume)
       /\ ~auth.res.allowed => auth.res.reason = "Maximum trading volume exceeded"
  /\ (scen.clean /\ scen.n > 0 /\ scen.v > 0) =>
       /\ scen.allowed = Min(scen.n, rm.maxVolume \div scen.v)
       /\ scen.last <=> (scen.n <= rm.maxVolume \div scen.v)
       /\ rm.currentVolume = scen.allowed * scen.v

\* Three identical rounds were allowed, the volume is exactly full, and the
\* next identical round was denied.
C3_Witness ==
  /\ scen.clean /\ scen.v > 0
  /\ scen.allowed = 3
  /\ scen.n = 4
  /\ ~scen.last
  /\ rm.currentVolume = rm.maxVolume
  /\ auth.res.reason = "Maximum trading volume exceeded"

(***************************************************************************)
(* Claims about the engine.                                                *)
(***************************************************************************)
Votes(c, what) ==
  (IF c.individualSignals.sma.signal = what THEN 1 ELSE 0)
  + (IF c.individualSignals.rsi.signal = what THEN 1 ELSE 0)
  + (IF c.individualSignals.bollinger.signal = what THEN 1 ELSE 0)

\* C1: combinedStrategy returns BUY iff at least two of the three generator
\* signals are BUY, SELL iff at least two are SELL, and HOLD otherwise.
C1_CombinedMajority ==
  resp.kind = "signals" =>
    LET c == resp.signals[1].combined
    IN /\ c.signal \in {"BUY", "SELL", "HOLD"}
       /\ c.signal = "BUY" <=> Votes(c, "BUY") >= 2
       /\ c.signal = "SELL" <=> Votes(c, "SELL") >= 2
       /\ c.signal = "HOLD" <=> (Votes(c, "BUY") < 2 /\ Votes(c, "SELL") < 2)

\* A request answered BUY on exactly two BUY votes.
C1_Witness ==
  /\ resp.kind = "signals"
  /\ resp.signals[1].combined.signal = "BUY"
  /\ Votes(resp.signals[1].combined, "BUY") = 2

Odd(n) == n % 2 = 1

\* C7: in runBacktest the position is never negative and a BUY is recorded
\* only when the position is 0: the ledger alternates BUY, SELL, BUY, ...
\* starting with a BUY, and the simulator is long exactly after a BUY.
C7_SingleOpenLot ==
  bt.pc \in {"loop", "done"} =>
    /\ bt.position >= 0
    /\ \A k \in 1..Len(bt.trades) :
         bt.trades[k].action = IF Odd(k) THEN "BUY" ELSE "SELL"
    /\ bt.pc = "loop" => (bt.position > 0 <=> Odd(Len(bt.trades)))
    /\ bt.pc = "done" => ~Odd(Len(bt.trades))

\* A step whose signal was an actionable BUY while the simulator was long
\* from an earlier step: nothing was bought.
C7_Witness ==
  /\ bt.pc = "loop"
  /\ bt.i > Lookback
  /\ bt.signal.signal = "BUY"
  /\ Actionable(bt.signal)
  /\ bt.position > 0
  /\ Len(bt.trades) = 1
  /\ bt.trades[1].timestamp < bt.priceData[bt.i].timestamp

LastPrice(b) == b.priceData[Len(b.priceData)].mid_price

\* C8: when the replay ends with an open position exactly one SELL of the
\* whole position at the last price is appended, the position is reset to 0
\* and finalCapital = capital + position * last price; when it ends flat no
\* trade is appended and finalCapital = capital.
C8_ForcedLiquidation ==
  [][ (bt.pc = "loop" /\ bt'.pc = "done") =>
        IF bt.position > 0
          THEN /\ Len(bt'.trades) = Len(bt.trades) + 1
               /\ SubSeq(bt'.trades, 1, Len(bt.trades)) = bt.trades
               /\ bt'.trades[Len(bt'.trades)].action = "SELL"
               /\ bt'.trades[Len(bt'.trades)].quantity = bt.position
               /\ bt'.trades[Len(bt'.trades)].price = LastPrice(bt)
               /\ bt'.position = 0
               /\ bt'.result.finalCapital = bt.capital + bt.position * LastPrice(bt)
          ELSE /\ bt'.trades = bt.trades
               /\ bt'.result.finalCapital = bt.capital ]_vars

\* C9: the result of a backtest is the result of replaying its inputs
\* (algorithm, series, initialCapital, parameters) on an empty price history,
\* whatever the shared TradingAlgorithms instance held when it started.
C9_Deterministic ==
  bt.pc = "done" =>
    bt.result =
      RunBacktest(StartBt(bt.algorithm, bt.parameters, bt.priceData, bt.initialCapital),
                  Preload(<<>>, bt.priceData)).b.result

\* A backtest that started on a price history holding earlier samples and
\* traded.
C9_Witness ==
  /\ bt.pc = "done"
  /\ bt.sharedBefore
  /\ Len(bt.result.trades) = 2
  /\ bt.result.trades[2].hasPnl

\* C10: at a replay step at which a position is held, the whole position is
\* sold at the current price iff the step's signal is SELL with confidence
\* > 0.5, whatever the capital and the price.
C10_SellIffSignal ==
  [][ (bt.pc = "loop" /\ bt'.pc = "loop" /\ bt'.i = bt.i + 1 /\ bt.position > 0) =>
        ( (/\ bt'.position = 0
           /\ bt'.capital = bt.capital + bt.position * bt.priceData[bt.i + 1].mid_price)
          <=> (bt'.signal.signal = "SELL" /\ Actionable(bt'.signal)) ) ]_vars

(***************************************************************************)
(* C4: in the auto-trading loop an automated trade is executed and added   *)
(* to currentTradingVolume only if the volume with the trade's notional    *)
(* added stays within maxTradingVolume.                                    *)
(***************************************************************************)
C4_AutomatedTradeWithinCap ==
  [][ (/\ tick.pc = "run"
       /\ tick' # tick
       /\ srv'.currentTradingVolume # srv.currentTradingVolume)
        => srv'.currentTradingVolume <= srv.maxTradingVolume ]_vars

(***************************************************************************)
(* C5: once isAutoTrading is false it is never true again, and a STOPPED   *)
(* session never leaves STOPPED, whatever callback or handler runs.        *)
(***************************************************************************)
C5_StopIsOneWay ==
  [][ /\ ~srv.isAutoTrading => ~srv'.isAutoTrading
      /\ srv.tradingSession.status = "STOPPED"
           => srv'.tradingSession.status = "STOPPED" ]_vars

\* Stopped on the limit, and a session tick has run since.
C5_Witness ==
  /\ srv.running
  /\ ~srv.isAutoTrading
  /\ srv.tradingSession.status = "STOPPED"
  /\ srv.stopNotices > 1

C11_BuySizing ==
  [][ (bt.pc = "loop" /\ bt'.pc = "loop" /\ bt'.i = bt.i + 1) =>
        LET price == bt.priceData[bt.i + 1].mid_price
            q     == bt.capital \div (10 * price)
            last  == bt'.trades[Len(bt'.trades)]
        IN /\ bt.position = 0 =>
                ( (/\ Len(bt'.trades) = Len(bt.trades) + 1
                   /\ last.action = "BUY"
                   /\ last.quantity = q
                   /\ last.price = price
                   /\ bt'.position = q
                   /\ bt'.capital = bt.capital - q * price)
                  <=> (bt'.signal.signal = "BUY" /\ Actionable(bt'.signal) /\ q > 0) )
           /\ bt.position = 0 =>
                (bt'.trades = bt.trades => (bt'.position = 0 /\ bt'.capital = bt.capital))
           /\ bt'.capital >= 0 ]_vars

\* The step just taken met an actionable BUY while flat and bought a tenth of
\* the capital, rounded down to whole units.
C11_Witness ==
  /\ bt.pc = "loop"
  /\ bt.signal.signal = "BUY"
  /\ Actionable(bt.signal)
  /\ Len(bt.trades) = 1
  /\ bt.trades[1].timestamp = bt.priceData[bt.i].timestamp
  /\ bt.position = bt.initialCapital \div (10 * bt.trades[1].price)
  /\ bt.capital = bt.initialCapital - bt.position * bt.trades[1].price
  /\ bt.capital * 10 > bt.initialCapital * 9

(***************************************************************************)
(* C12: after k addPriceData calls for a symbol its stored series is the   *)
(* last min(k, capacity) appended samples in insertion order, so its       *)
(* length never exceeds the capacity; a symbol never fed has no samples.   *)
(***************************************************************************)
C12_FifoBound ==
  LET k == Len(ta.appended)
      n == IF k < HistoryCapacity THEN k ELSE HistoryCapacity
      h == ta.priceHistory[FedSymbol]
  IN /\ Len(h) = n
     /\ Len(h) <= HistoryCapacity
     /\ \A j \in 1..n : h[j] = ta.appended[k - n + j]
     /\ \A s \in StoreSymbols \ {FedSymbol} : ta.priceHistory[s] = <<>>

\* One sample more than the capacity was appended: the oldest one is gone.
C12_Witness ==
  /\ Len(ta.appended) = HistoryCapacity + 1
  /\ Len(ta.priceHistory[FedSymbol]) = HistoryCapacity
  /\ ta.priceHistory[FedSymbol][1] = ta.appended[2]
  /\ ta.priceHistory[FedSymbol][1] # ta.appended[1]

(***************************************************************************)
(* C13: in every reachable state of the engine the price series stored     *)
(* for a symbol is timestamp-non-decreasing.                               *)
(***************************************************************************)
C13_TimestampsNonDecreasing ==
  \A k \in 1..(Len(hist) - 1) : hist[k].timestamp <= hist[k + 1].timestamp

(***************************************************************************)
(* C14: getPriceHistory(symbol, n) returns, for every n >= 0 and every     *)
(* stored series of length len, the last min(n, len) samples in            *)
(* chronological order, and the empty sequence for a symbol never fed.     *)
(***************************************************************************)
C14_RecentSamples ==
  ta.out.call = "getPriceHistory" =>
    LET h == ta.priceHistory[ta.out.symbol]
        n == ta.out.args[1]
        m == IF n < Len(h) THEN n ELSE Len(h)
    IN ta.out.samples = SubSeq(h, Len(h) - m + 1, Len(h))

(***************************************************************************)
(* C15: smaCrossover returns HOLD with reason "Insufficient data" whenever *)
(* fewer than longPeriod prices are stored for the symbol, rsiStrategy     *)
(* returns HOLD whenever fewer than period + 1 are, and                    *)
(* bollingerBandsStrategy returns HOLD whenever fewer than period are,     *)
(* a symbol never fed included.                                            *)
(***************************************************************************)
C15_InsufficientIsHold ==
  LET n == Len(ta.priceHistory[ta.out.symbol])
  IN /\ (ta.out.call = "smaCrossover" /\ n < ta.out.args[2]) =>
          (ta.out.signal.signal = "HOLD" /\ ta.out.signal.reason = "Insufficient data")
     /\ (ta.out.call = "rsiStrategy" /\ n < ta.out.args[1] + 1) =>
          ta.out.signal.signal = "HOLD"
     /\ (ta.out.call = "bollingerBandsStrategy" /\ n < ta.out.args[1]) =>
          ta.out.signal.signal = "HOLD"

\* smaCrossover was called on a symbol holding some samples, one fewer than
\* its longPeriod.
C15_Witness ==
  /\ ta.out.call = "smaCrossover"
  /\ ta.out.symbol = FedSymbol
  /\ Len(ta.priceHistory[FedSymbol]) > 0
  /\ Len(ta.priceHistory[FedSymbol]) = ta.out.args[2] - 1
  /\ ta.out.signal.reason = "Insufficient data"

\* The prices smaCrossover reads for the last call's symbol: the last
\* DefaultLimit stored ones.
WindowOf(h) ==
  LET n == IF Len(h) < DefaultLimit THEN Len(h) ELSE DefaultLimit
  IN [k \in 1..n |-> h[Len(h) - n + k].price]

\* The sum of the period prices of w that end at position e.
SumEndingAt(w, period, e) == SumSeq(SubSeq(w, e - period + 1, e))

\* The rule of the SMA crossover on window w, ending at its last sample; an
\* SMA is its sum over its period, so two SMAs are compared cross-multiplied.
CrossoverRule(signal, w, shortPeriod, longPeriod) ==
  LET n  == Len(w)
      cS == SumEndingAt(w, shortPeriod, n) * longPeriod
      cL == SumEndingAt(w, longPeriod, n) * shortPeriod
      pS == SumEndingAt(w, shortPeriod, n - 1) * longPeriod
      pL == SumEndingAt(w, longPeriod, n - 1) * shortPeriod
  IN /\ signal.signal = "BUY" <=> (pS <= pL /\ cS > cL)
     /\ signal.signal = "SELL" <=> (pS >= pL /\ cS < cL)
     /\ signal.signal \notin {"BUY", "SELL"} =>
          (signal.signal = "HOLD" /\ signal.reason = "No crossover detected")

StrictlyRising(w) == \A k \in 1..(Len(w) - 1) : w[k] < w[k + 1]

\* The short SMA exceeds the long SMA at sample e of w.
ShortExceedsLong(w, shortPeriod, longPeriod, e) ==
  /\ e >= longPeriod
  /\ e >= shortPeriod
  /\ SumEndingAt(w, shortPeriod, e) * longPeriod > SumEndingAt(w, longPeriod, e) * shortPeriod

(***************************************************************************)
(* C17: on a strictly rising series fed one sample at a time, smaCrossover *)
(* with shortPeriod < longPeriod returns HOLD at every sample before the   *)
(* first one at which the short SMA exceeds the long SMA, and BUY with     *)
(* confidence > 0 at that sample.                                          *)
(***************************************************************************)
C17_RisingSeriesBuys ==
  LET w == [k \in 1..Len(ta.appended) |-> ta.appended[k].price]
      n == Len(w)
  IN (/\ ta.out.call = "smaCrossover"
      /\ ta.out.symbol = FedSymbol
      /\ ta.out.args[1] < ta.out.args[2]
      /\ n <= DefaultLimit
      /\ StrictlyRising(w)) =>
       IF \E e \in 1..n : ShortExceedsLong(w, ta.out.args[1], ta.out.args[2], e)
         THEN (\A e \in 1..(n - 1) : ~ShortExceedsLong(w, ta.out.args[1], ta.out.args[2], e))
                => /\ ta.out.signal.signal = "BUY"
                   /\ ta.out.signal.hasConfidence
                   /\ ConfGT(ta.out.signal.confidence, 0, 1)
         ELSE ta.out.signal.signal = "HOLD"

\* The reasons of the generators whose signal is what, in sma, rsi, bollinger
\* order.
AgreeingReasons(c, what) ==
  (IF c.individualSignals.sma.signal = what
     THEN <<c.individualSignals.sma.reason>> ELSE <<>>)
  \o (IF c.individualSignals.rsi.signal = what
        THEN <<c.individualSignals.rsi.reason>> ELSE <<>>)
  \o (IF c.individualSignals.bollinger.signal = what
        THEN <<c.individualSignals.bollinger.reason>> ELSE <<>>)

(***************************************************************************)
(* C18: combinedStrategy's confidence is k/3, with k in {2, 3} the number  *)
(* of generators that agree with its BUY or SELL, and its reasons are the  *)
(* reasons of those k generators in sma, rsi, bollinger order; on HOLD the *)
(* confidence is 0 and the reasons are empty.                              *)
(***************************************************************************)
C18_CombinedConfidence ==
  resp.kind = "signals" =>
    LET c == resp.signals[1].combined
        k == Votes(c, c.signal)
    IN /\ c.hasConfidence
       /\ c.confidence.b = 0 /\ c.confidence.d = 0 /\ c.confidence.c > 0
       /\ IF c.signal = "HOLD"
            THEN c.confidence.a = 0 /\ c.reasons = <<>>
            ELSE /\ k \in {2, 3}
                 /\ 3 * c.confidence.a = k * c.confidence.c
                 /\ Len(c.reasons) = k
                 /\ c.reasons = AgreeingReasons(c, c.signal)

\* A request answered SELL by two generators while the third held: its
\* reason is left out.
C18_Witness ==
  /\ resp.kind = "signals"
  /\ resp.signals[1].combined.signal = "SELL"
  /\ Votes(resp.signals[1].combined, "SELL") = 2
  /\ Votes(resp.signals[1].combined, "HOLD") = 1
  /\ Len(resp.signals[1].combined.reasons) = 2

(***************************************************************************)
(* C19: every BUY or SELL signal of smaCrossover, rsiStrategy or           *)
(* bollingerBandsStrategy carries a confidence that is a finite number in  *)
(* [0, 1].                                                                 *)
(***************************************************************************)
C19_ConfidenceInUnitInterval ==
  (/\ ta.out.call \in {"smaCrossover", "rsiStrategy", "bollingerBandsStrategy"}
   /\ ta.out.signal.signal \in {"BUY", "SELL"}) =>
    LET conf == ta.out.signal.confidence
    IN /\ ta.out.signal.hasConfidence
       \* finite: the denominator is positive
       /\ SurdPositive(conf.c, conf.d, conf.V)
       \* not negative
       /\ ~SurdPositive(-conf.a, -conf.b, conf.V)
       \* not above 1
       /\ ~ConfGT(conf, 1, 1)

(***************************************************************************)
(* C20: a canExecuteTrade call, allowed or denied, leaves currentVolume    *)
(* unchanged; currentVolume changes only through updateVolume, by exactly  *)
(* quantity * price of the recorded trade, so an authorized trade that is  *)
(* never recorded adds nothing.                                            *)
(***************************************************************************)
C20_GateDoesNotRecord ==
  [][ \* a lone authorize
      /\ (auth' # auth /\ scen' = scen) => rm' = rm
      \* a denied round records nothing
      /\ (scen' # scen /\ auth'.called /\ ~auth'.res.allowed /\ scen'.clean) => rm' = rm
      \* every change of the volume is one record of one trade
      /\ rm' # rm =>
           /\ rm'.maxVolume = rm.maxVolume
           /\ IF auth' = auth
                THEN \E t \in GateTrades :
                       rm'.currentVolume = rm.currentVolume + t.quantity * t.price
                ELSE /\ auth'.res.allowed
                     /\ auth'.before = rm.currentVolume
                     /\ rm'.currentVolume
                          = rm.currentVolume + auth'.trade.quantity * auth'.trade.price
    ]_vars

\* A trade of positive notional was authorized on a gate that already holds
\* volume, and was not recorded.
C20_Witness ==
  /\ auth.called
  /\ auth.res.allowed
  /\ auth.trade.quantity * auth.trade.price > 0
  /\ auth.before > 0
  /\ rm.currentVolume = auth.before
  /\ ~scen.clean

C22_EvaluateIsPureRead ==
  [][(bt.pc = "idle" /\ db' = db /\ bt' = bt /\ resp'.kind = "signals") =>
       hist' = hist]_vars

\* A strategy period the request gave is zero or negative.
NonPositivePeriod(parameters) ==
  \E f \in {"shortPeriod", "longPeriod", "period"} :
    parameters[f] # Undefined /\ parameters[f][1] <= 0

(***************************************************************************)
(* C23: runBacktest returns no normal result when it is given an empty     *)
(* price series or a non-positive strategy period: no backtest over such   *)
(* an input reaches its return statement.                                  *)
(***************************************************************************)
C23_FailsFast ==
  bt.pc = "done" => (bt.priceData # <<>> /\ ~NonPositivePeriod(bt.parameters))

\* runBacktest's locals once its loop index has reached i, on price history h.
RECURSIVE ReplayTo(_, _, _)
ReplayTo(b, h, i) ==
  IF b.i < i /\ b.i < Len(b.priceData)
    THEN LET s == StepBt(b, h) IN ReplayTo(s.b, s.h, i)
    ELSE b

\* The series of the length of priceData that agree with it on its first k rows.
AgreeingSeries(priceData, k) ==
  { [j \in 1..Len(priceData) |->
       IF j <= k THEN priceData[j] ELSE [priceData[j] EXCEPT !.mid_price = later[j]]] :
    later \in [1..Len(priceData) -> Prices] }

(***************************************************************************)
(* C24: no look-ahead.  The signal the replay evaluated at step i is a     *)
(* function of the samples 0..i only: a backtest of the same strategy over *)
(* any series that agrees on the samples 0..i evaluates the same signal at *)
(* step i.                                                                 *)
(***************************************************************************)
C24_NoLookAhead ==
  (bt.pc = "loop" /\ bt.i > Lookback) =>
    \A other \in AgreeingSeries(bt.priceData, bt.i) :
      ReplayTo(StartBt(bt.algorithm, bt.parameters, other, bt.initialCapital),
               Preload(<<>>, other), bt.i).signal = bt.signal

\* The price of the sample before the one a trade of the backtest is stamped with.
PreviousSamplePrice(b, trade) ==
  LET j == CHOOSE j \in 1..Len(b.priceData) : b.priceData[j].timestamp = trade.timestamp
  IN b.priceData[j - 1].mid_price

(***************************************************************************)
(* C25: in the ledger runBacktest returns, a trade carries a pnl iff it is *)
(* a SELL leg; every SELL leg, the forced liquidation at the end of the    *)
(* series included, has pnl = quantity * price - quantity * (the previous  *)
(* sample's price), and no BUY leg has a pnl.                              *)
(***************************************************************************)
C25_PnlIffSell ==
  bt.pc = "done" =>
    \A k \in 1..Len(bt.result.trades) :
      LET trade == bt.result.trades[k]
      IN /\ trade.hasPnl <=> trade.action = "SELL"
         /\ trade.hasPnl =>
              trade.pnl = trade.quantity * trade.price
                            - trade.quantity * PreviousSamplePrice(bt, trade)

\* equity (capital + position * current price) after the trade of the sample
\* at row i of the series of backtest b, the replay started on an empty store
EquityAfter(b, i) ==
  LET r == ReplayTo(StartBt(b.algorithm, b.parameters, b.priceData, b.initialCapital),
                    Preload(<<>>, b.priceData), i)
  IN r.capital + r.position * b.priceData[i].mid_price

\* the running maximum of equity up to row i, starting at initialCapital
RECURSIVE PeakAt(_, _)
PeakAt(b, i) ==
  IF i <= Lookback THEN b.initialCapital
  ELSE Max(PeakAt(b, i - 1), EquityAfter(b, i))

\* a replayed row at which (peak - equity) / peak is largest
WorstRow(b) ==
  CHOOSE i \in (Lookback + 1)..Len(b.priceData) :
    \A j \in (Lookback + 1)..Len(b.priceData) :
      (PeakAt(b, i) - EquityAfter(b, i)) * PeakAt(b, j)
        >= (PeakAt(b, j) - EquityAfter(b, j)) * PeakAt(b, i)

\* C26 as stated: the maxDrawdown reported by runBacktest (in hundredths of a
\* percent here) equals 100 times the maximum over the replayed samples of
\* (peak - equity) / peak.
C26_MaxDrawdownAsStated ==
  bt.pc = "done" =>
    LET w == WorstRow(bt)
    IN bt.result.maxDrawdown * PeakAt(bt, w)
         = 100 * 100 * (PeakAt(bt, w) - EquityAfter(bt, w))

(***************************************************************************)
(* C26: the maxDrawdown reported by runBacktest is 100 times the maximum,  *)
(* over the replayed samples, of (peak - equity) / peak, rounded to two    *)
(* decimals; peak is the running maximum of equity starting at             *)
(* initialCapital and never decreases; the reported value lies in 0..100.  *)
(***************************************************************************)
C26_MaxDrawdown ==
  /\ [](bt.pc = "done" =>
          LET w == WorstRow(bt)
          IN /\ bt.maxCapital = PeakAt(bt, Len(bt.priceData))
             /\ bt.result.maxDrawdown
                  = ToFixed2(100 * (PeakAt(bt, w) - EquityAfter(bt, w)), PeakAt(bt, w))
             /\ bt.result.maxDrawdown >= 0
             /\ bt.result.maxDrawdown <= 100 * 100)
  /\ [][(bt.pc = "loop" /\ bt'.pc # "idle") =>
          (bt'.maxCapital >= bt.maxCapital /\ bt.maxCapital >= bt.initialCapital)]_vars

\* a backtest that is over reports a drawdown that is not a whole number of
\* hundredths before rounding
C26_Witness ==
  /\ bt.pc = "done"
  /\ bt.result.maxDrawdown > 0
  /\ (100 * 100 * bt.maxDrawdown[1]) % bt.maxDrawdown[2] # 0

RECURSIVE ClosedLots(_)
ClosedLots(trades) ==
  IF Len(trades) < 2 THEN 0
  ELSE trades[1].quantity * (trades[2].price - trades[1].price)
         + ClosedLots(SubSeq(trades, 3, Len(trades)))

\* ---------------------------------------------------------------------------
\* C28: equity conservation in runBacktest.  The BUY or SELL recorded at a
\* replay step leaves equity (capital + position * current price) as it was
\* before the trade at that step's price, and the forced liquidation leaves it
\* as it was at the last price; so finalCapital = initialCapital + the sum over
\* all closed lots, the forced liquidation included, of
\* quantity * (sell price - buy price).
C28_EquityConservation ==
  /\ [][(bt.pc = "loop" /\ bt'.pc = "loop" /\ bt'.i = bt.i + 1) =>
          LET currentPrice == bt.priceData[bt.i + 1].mid_price
          IN bt'.capital + bt'.position * currentPrice
               = bt.capital + bt.position * currentPrice]_vars
  /\ [](bt.pc = "done" =>
          /\ Len(bt.result.trades) % 2 = 0
          /\ bt.result.finalCapital = bt.initialCapital + ClosedLots(bt.result.trades))

\* a finished backtest whose only lot was closed by the forced liquidation, at
\* a gain
C28_Witness ==
  /\ bt.pc = "done"
  /\ Len(bt.result.trades) = 2
  /\ ~bt.result.trades[2].hasPnl
  /\ bt.result.trades[2].price > bt.result.trades[1].price
  /\ bt.result.finalCapital > bt.initialCapital

(***************************************************************************)
(* C29: the limit-reached notification ("Auto Trading Stopped") is emitted *)
(* at most once per trading session: a session tick that runs when the     *)
(* session is already STOPPED emits no further one.                        *)
(***************************************************************************)
C29_StopNoticeOnce ==
  [][srv.tradingSession.status = "STOPPED" => srv'.stopNotices = srv.stopNotices]_vars

(***************************************************************************)
(* C30: indicator cache isolation.  After any sequence of generator calls  *)
(* on any symbols, getIndicators(s) returns exactly the latest values the  *)
(* generator calls for s itself stored, keyed by the bare indicator name;  *)
(* a value stored for another symbol, one whose name has s as a prefix     *)
(* included, is not in the result.                                         *)
(***************************************************************************)
C30_CacheIsolation ==
  ic.out.call = "getIndicators" => ic.out.result = ic.written[ic.out.symbol]

====
